---- MODULE Spec2Model ----
(***************************************************************************)
(* A model of the circular genome of src/genome.py: the two storage        *)
(* strategies ListGenome and LinkedListGenome under calls of insert_te,    *)
(* copy_te and disable_te.  Spec runs one genome of either class; SpecBoth *)
(* runs one genome of each class under the same calls.                     *)
(*                                                                         *)
(* Python lists are modelled as TLA+ sequences; a Python index i is the    *)
(* TLA+ index i + 1.  Python dicts keep insertion order and are modelled   *)
(* as sequences of entries [key, ...] in insertion order.  A call that     *)
(* raises is modelled by the field exc of its result, together with the    *)
(* state the call had reached when it raised.                              *)
(***************************************************************************)
EXTENDS Integers, Sequences, FiniteSets

\* ------------------------------------------------------------------------
\* Bounds of the model
\* ------------------------------------------------------------------------
MaxN == 2        \* construction sizes n are 1 .. MaxN
MaxLen == 4      \* an insertion is taken only while len(nuc) stays <= MaxLen
MaxTELen == 2    \* TE lengths passed to insert_te are 0 .. MaxTELen
MaxOff == 2      \* offsets passed to copy_te are -MaxOff .. MaxOff
MaxId == 3       \* at most MaxId ids are minted per genome
MaxK == 3        \* sim_te runs k = 0 .. MaxK operations

VARIABLES genome, call, res, pre, caller

vars == <<genome, call, res, pre, caller>>

\* ------------------------------------------------------------------------
\* Python values and containers
\* ------------------------------------------------------------------------
\* The value None (ids are >= 1, tags are >= 0).
None == -1

\* Outcome of list indexing s[i]: the normalised index (0-based), or
\* IndexError when i is outside -len(s) .. len(s)-1.
IndexError == -1

PyIdx(s, i) ==
    IF 0 <= i /\ i < Len(s) THEN i
    ELSE IF i < 0 /\ -Len(s) <= i THEN i + Len(s)
    ELSE IndexError

\* s[i] for an index already normalised by PyIdx.
At(s, i) == s[i + 1]

\* s[i] = v for an index already normalised by PyIdx.
SetAt(s, i, v) == [s EXCEPT ![i + 1] = v]

\* [v] * k
Repeat(v, k) == [x \in 1..k |-> v]

\* s[pos:pos+len(block)] = block: the block takes the place of the slots
\* it lands on.
SpliceAt_Overwriting(s, pos, block) ==
    SubSeq(s, 1, pos) \o block
        \o (IF pos + Len(block) < Len(s)
            THEN SubSeq(s, pos + Len(block) + 1, Len(s)) ELSE <<>>)

\* s[pos:pos] = block, for 0 <= pos <= len(s).
SpliceAt(s, pos, block) ==
    SubSeq(s, 1, pos) \o block \o SubSeq(s, pos + 1, Len(s))

\* s.index(v): the 0-based index of the first occurrence, or ValueError.
ValueError == -2

ListIndex(s, v) ==
    IF \E k \in 1..Len(s) : s[k] = v
    THEN (CHOOSE k \in 1..Len(s) : s[k] = v /\ \A m \in 1..(k - 1) : s[m] # v) - 1
    ELSE ValueError

\* k in d
InDict(d, k) == \E x \in 1..Len(d) : d[x].key = k

\* d[k], for k in d
DictGet(d, k) == d[CHOOSE x \in 1..Len(d) : d[x].key = k]

\* del d[k], for k in d
DictDel(d, k) == SelectSeq(d, LAMBDA e : e.key # k)

\* A registry that puts a new key first.
DictSet_NewKeyFirst(d, e) ==
    IF InDict(d, e.key)
    THEN [x \in 1..Len(d) |-> IF d[x].key = e.key THEN e ELSE d[x]]
    ELSE <<e>> \o d

\* d[e.key] = e: a present key keeps its place, a new key goes last.
DictSet(d, e) ==
    IF InDict(d, e.key)
    THEN [x \in 1..Len(d) |-> IF d[x].key = e.key THEN e ELSE d[x]]
    ELSE Append(d, e)

\* list(d)
DictKeys(d) == [x \in 1..Len(d) |-> d[x].key]

\* The character of one slot in __str__.
SlotChar(a, active) ==
    IF a = 0 THEN "-" ELSE IF InDict(active, a) THEN "A" ELSE "x"

\* ------------------------------------------------------------------------
\* ListGenome
\* ------------------------------------------------------------------------
List_init(n) ==
    [next_te_id |-> 1, nuc |-> Repeat(0, n), active |-> <<>>]

\* insert_te that hands out the current id without advancing next_te_id.
List_insert_te_ReusingId(g, pos, length) ==
    LET i == PyIdx(g.nuc, pos) IN
    IF i = IndexError
    THEN [g |-> g, ret |-> None, exc |-> "IndexError"]
    ELSE
      LET hit == At(g.nuc, i)
          act1 == IF InDict(g.active, hit) THEN DictDel(g.active, hit)
                  ELSE g.active
          te == g.next_te_id
      IN [g |-> [next_te_id |-> te,
                 nuc |-> SpliceAt(g.nuc, i, Repeat(te, length)),
                 active |-> DictSet(act1, [key |-> te, length |-> length])],
          ret |-> te, exc |-> "none"]

List_insert_te(g, pos, length) ==
    LET i == PyIdx(g.nuc, pos) IN
    IF i = IndexError
    THEN [g |-> g, ret |-> None, exc |-> "IndexError"]
    ELSE
      LET hit == At(g.nuc, i)
          act1 == IF InDict(g.active, hit) THEN DictDel(g.active, hit)
                  ELSE g.active
          te == g.next_te_id
      IN [g |-> [next_te_id |-> te + 1,
                 nuc |-> SpliceAt(g.nuc, i, Repeat(te, length)),
                 active |-> DictSet(act1, [key |-> te, length |-> length])],
          ret |-> te, exc |-> "none"]

List_copy_te(g, te, offset) ==
    IF ~InDict(g.active, te)
    THEN [g |-> g, ret |-> None, exc |-> "none"]
    ELSE
      LET pos == ListIndex(g.nuc, te) IN
      IF pos = ValueError
      THEN [g |-> g, ret |-> None, exc |-> "ValueError"]
      ELSE List_insert_te(g, (pos + offset) % Len(g.nuc),
                          DictGet(g.active, te).length)

\* disable_te that also wipes the tags of the TE it disables.
List_disable_te_ErasingTags(g, te) ==
    IF InDict(g.active, te)
    THEN [g |-> [g EXCEPT !.active = DictDel(g.active, te),
                          !.nuc = [k \in 1..Len(g.nuc) |->
                                      IF g.nuc[k] = te THEN 0 ELSE g.nuc[k]]],
          ret |-> None, exc |-> "none"]
    ELSE [g |-> g, ret |-> None, exc |-> "none"]

List_disable_te(g, te) ==
    IF InDict(g.active, te)
    THEN [g |-> [g EXCEPT !.active = DictDel(g.active, te)],
          ret |-> None, exc |-> "none"]
    ELSE [g |-> g, ret |-> None, exc |-> "none"]

List_active_tes(g) == DictKeys(g.active)

List_len(g) == Len(g.nuc)

List_str(g) ==
    [s |-> [k \in 1..Len(g.nuc) |-> SlotChar(g.nuc[k], g.active)],
     exc |-> "none"]

\* ------------------------------------------------------------------------
\* LinkedListGenome
\* ------------------------------------------------------------------------
Linked_init(n) ==
    [next_te_id |-> 1,
     nuc |-> Repeat(0, n),
     next |-> [x \in 1..n |-> x % n],
     prev |-> [x \in 1..n |-> (x - 2) % n],
     active |-> <<>>]

\* i = arr[i], repeated steps times; range(steps) is empty for steps <= 0.
RECURSIVE Follow(_, _, _)
Follow(arr, i, steps) ==
    IF steps <= 0 THEN [i |-> i, exc |-> "none"]
    ELSE LET k == PyIdx(arr, i) IN
         IF k = IndexError THEN [i |-> i, exc |-> "IndexError"]
         ELSE Follow(arr, At(arr, k), steps - 1)

Linked_get_index(g, pos) == Follow(g.next, 0, pos)

Linked_move_offset(g, i, offset) ==
    IF offset >= 0 THEN Follow(g.next, i, offset)
    ELSE Follow(g.prev, i, -offset)

\* _insert_te_at_index that leaves the TE it lands on in the registry.
Linked_insert_te_at_index_KeepingHit(g, i, length) ==
    LET ki == PyIdx(g.nuc, i) IN
    IF ki = IndexError \/ PyIdx(g.prev, i) = IndexError
    THEN [g |-> g, ret |-> None, exc |-> "IndexError"]
    ELSE
      LET te == g.next_te_id
          j == At(g.prev, PyIdx(g.prev, i))
          n == Len(g.nuc)
          g2 == [next_te_id |-> te + 1,
                 nuc |-> g.nuc \o Repeat(te, length),
                 next |-> g.next \o [x \in 1..(length - 1) |-> n + x]
                                 \o <<i>>,
                 prev |-> g.prev \o <<j>>
                                 \o [x \in 1..(length - 1) |-> n + x - 1],
                 active |-> DictSet(g.active, [key |-> te, pos |-> n,
                                               length |-> length])]
      IN
      IF PyIdx(g2.next, j) = IndexError \/ PyIdx(g2.prev, i) = IndexError
      THEN [g |-> g2, ret |-> None, exc |-> "IndexError"]
      ELSE [g |-> [g2 EXCEPT !.next = SetAt(g2.next, PyIdx(g2.next, j), n),
                             !.prev = SetAt(g2.prev, PyIdx(g2.prev, i),
                                            n + length - 1)],
            ret |-> te, exc |-> "none"]

Linked_insert_te_at_index(g, i, length) ==
    LET ki == PyIdx(g.nuc, i) IN
    IF ki = IndexError
    THEN [g |-> g, ret |-> None, exc |-> "IndexError"]
    ELSE
      LET hit == At(g.nuc, ki)
          act1 == IF InDict(g.active, hit) THEN DictDel(g.active, hit)
                  ELSE g.active
          te == g.next_te_id
          g1 == [g EXCEPT !.active = act1, !.next_te_id = te + 1]
          kp == PyIdx(g.prev, i)
      IN
      IF kp = IndexError
      THEN [g |-> g1, ret |-> None, exc |-> "IndexError"]
      ELSE
        LET j == At(g.prev, kp)
            n == Len(g.nuc)
            g2 == [next_te_id |-> te + 1,
                   nuc |-> g.nuc \o Repeat(te, length),
                   next |-> g.next \o [x \in 1..(length - 1) |-> n + x]
                                   \o <<i>>,
                   prev |-> g.prev \o <<j>>
                                   \o [x \in 1..(length - 1) |-> n + x - 1],
                   active |-> DictSet(act1, [key |-> te, pos |-> n,
                                             length |-> length])]
            kj == PyIdx(g2.next, j)
        IN
        IF kj = IndexError
        THEN [g |-> g2, ret |-> None, exc |-> "IndexError"]
        ELSE
          LET g3 == [g2 EXCEPT !.next = SetAt(g2.next, kj, n)]
              kq == PyIdx(g3.prev, i)
          IN
          IF kq = IndexError
          THEN [g |-> g3, ret |-> None, exc |-> "IndexError"]
          ELSE [g |-> [g3 EXCEPT !.prev = SetAt(g3.prev, kq, n + length - 1)],
                ret |-> te, exc |-> "none"]

Linked_insert_te(g, pos, length) ==
    LET w == Linked_get_index(g, pos) IN
    IF w.exc # "none"
    THEN [g |-> g, ret |-> None, exc |-> w.exc]
    ELSE Linked_insert_te_at_index(g, w.i, length)

\* copy_te that mints an id before it looks whether te is active.
Linked_copy_te_MintingFirst(g, te, offset) ==
    IF ~InDict(g.active, te)
    THEN [g |-> [g EXCEPT !.next_te_id = g.next_te_id + 1],
          ret |-> None, exc |-> "none"]
    ELSE
      LET e == DictGet(g.active, te)
          w == Linked_move_offset(g, e.pos, offset)
      IN
      IF w.exc # "none"
      THEN [g |-> g, ret |-> None, exc |-> w.exc]
      ELSE Linked_insert_te_at_index(g, w.i, e.length)

Linked_copy_te(g, te, offset) ==
    IF ~InDict(g.active, te)
    THEN [g |-> g, ret |-> None, exc |-> "none"]
    ELSE
      LET e == DictGet(g.active, te)
          w == Linked_move_offset(g, e.pos, offset)
      IN
      IF w.exc # "none"
      THEN [g |-> g, ret |-> None, exc |-> w.exc]
      ELSE Linked_insert_te_at_index(g, w.i, e.length)

\* disable_te that empties the whole registry when te is active.
Linked_disable_te_ClearingAll(g, te) ==
    IF InDict(g.active, te)
    THEN [g |-> [g EXCEPT !.active = <<>>], ret |-> None, exc |-> "none"]
    ELSE [g |-> g, ret |-> None, exc |-> "none"]

Linked_disable_te(g, te) ==
    IF InDict(g.active, te)
    THEN [g |-> [g EXCEPT !.active = DictDel(g.active, te)],
          ret |-> None, exc |-> "none"]
    ELSE [g |-> g, ret |-> None, exc |-> "none"]

Linked_active_tes(g) == DictKeys(g.active)

Linked_len(g) == Len(g.nuc)

\* The generator _nucleotides, from the node n on: the tags yielded so far
\* are in out.  The loop ends when n is 0 again, raises when nuc[n] or
\* next[n] does not exist, and never ends ("diverges") when it has yielded
\* more nodes than next has entries, since it then runs in a cycle of next
\* that does not contain node 0.
RECURSIVE Linked_nucleotides_from(_, _, _)
Linked_nucleotides_from(g, n, out) ==
    IF n = 0 THEN [s |-> out, exc |-> "none"]
    ELSE IF Len(out) > Len(g.next) THEN [s |-> out, exc |-> "diverges"]
    ELSE IF PyIdx(g.nuc, n) = IndexError \/ PyIdx(g.next, n) = IndexError
         THEN [s |-> out, exc |-> "IndexError"]
    ELSE Linked_nucleotides_from(g, At(g.next, PyIdx(g.next, n)),
                                 Append(out, At(g.nuc, PyIdx(g.nuc, n))))

Linked_nucleotides(g) ==
    IF PyIdx(g.nuc, 0) = IndexError \/ PyIdx(g.next, 0) = IndexError
    THEN [s |-> <<>>, exc |-> "IndexError"]
    ELSE Linked_nucleotides_from(g, At(g.next, 0), <<At(g.nuc, 0)>>)

\* The node indices in the order in which _nucleotides visits them.
RECURSIVE Linked_nodes_from(_, _, _)
Linked_nodes_from(g, n, out) ==
    IF n = 0 THEN [s |-> out, exc |-> "none"]
    ELSE IF Len(out) > Len(g.next) THEN [s |-> out, exc |-> "diverges"]
    ELSE IF PyIdx(g.nuc, n) = IndexError \/ PyIdx(g.next, n) = IndexError
         THEN [s |-> out, exc |-> "IndexError"]
    ELSE Linked_nodes_from(g, At(g.next, PyIdx(g.next, n)),
                           Append(out, PyIdx(g.nuc, n)))

Linked_nodes(g) ==
    IF PyIdx(g.nuc, 0) = IndexError \/ PyIdx(g.next, 0) = IndexError
    THEN [s |-> <<>>, exc |-> "IndexError"]
    ELSE Linked_nodes_from(g, At(g.next, 0), <<0>>)

Linked_str(g) ==
    LET t == Linked_nucleotides(g) IN
    [s |-> [k \in 1..Len(t.s) |-> SlotChar(t.s[k], g.active)],
     exc |-> t.exc]

\* ------------------------------------------------------------------------
\* The Genome interface and its callers
\* ------------------------------------------------------------------------
\* genome: the genome objects of the run, by class name.
\* call:   the call in progress, [op, a, b] with its two arguments, or
\*         Idle between two calls.
\* res:    by class, what the call returned or raised.
\* pre:    by class, the genome as it was before the call.
\* caller: where the program that owns the genomes stands: AnyCaller for
\*         a caller of which nothing is known, the position of sim_te in
\*         its loop, or the position of run_genome_test in its script.

Classes == {"ListGenome", "LinkedListGenome"}

Genome_init(c, n) ==
    IF c = "ListGenome" THEN List_init(n) ELSE Linked_init(n)

Genome_insert_te(c, g, pos, length) ==
    IF c = "ListGenome" THEN List_insert_te(g, pos, length)
    ELSE Linked_insert_te(g, pos, length)

Genome_copy_te(c, g, te, offset) ==
    IF c = "ListGenome" THEN List_copy_te(g, te, offset)
    ELSE Linked_copy_te(g, te, offset)

Genome_disable_te(c, g, te) ==
    IF c = "ListGenome" THEN List_disable_te(g, te)
    ELSE Linked_disable_te(g, te)

Genome_active_tes(c, g) ==
    IF c = "ListGenome" THEN List_active_tes(g) ELSE Linked_active_tes(g)

Genome_len(c, g) ==
    IF c = "ListGenome" THEN List_len(g) ELSE Linked_len(g)

Genome_str(c, g) ==
    IF c = "ListGenome" THEN List_str(g) ELSE Linked_str(g)

Idle == [op |-> "none", a |-> 0, b |-> 0]

NoResult == [ret |-> None, exc |-> "none"]

AnyCaller == [pc |-> "any"]

Present == DOMAIN genome

\* genome_class(n), for the classes in cs.
Construct(cs) ==
    \E n \in 1..MaxN :
        /\ genome = [c \in cs |-> Genome_init(c, n)]
        /\ call = Idle
        /\ res = [c \in cs |-> NoResult]
        /\ pre = [c \in cs |-> Genome_init(c, n)]
        /\ caller = AnyCaller

\* One genome, of either class.
Init == \E c \in Classes : Construct({c})

\* One genome of each class.
InitBoth == Construct(Classes)

SetMax(S) == CHOOSE x \in S : \A y \in S : y <= x

SetMin(S) == CHOOSE x \in S : \A y \in S : x <= y

\* The largest and the smallest current length, and the largest next id,
\* among the genomes.
MaxLength == SetMax({Len(genome[c].nuc) : c \in Present})

MinLength == SetMin({Len(genome[c].nuc) : c \in Present})

MaxNextId == SetMax({genome[c].next_te_id : c \in Present})

\* A call is taken only while every genome stays inside the model's bounds.
InBounds(r) ==
    \A c \in Present :
        /\ Len(r[c].g.nuc) <= MaxLen
        /\ r[c].g.next_te_id <= MaxId + 1

\* The call op(a, b) runs to completion on every genome; r[c] is its
\* outcome on the genome of class c.
Call(op, a, b, r) ==
    /\ call = Idle
    /\ InBounds(r)
    /\ genome' = [c \in Present |-> r[c].g]
    /\ call' = [op |-> op, a |-> a, b |-> b]
    /\ res' = [c \in Present |-> [ret |-> r[c].ret, exc |-> r[c].exc]]
    /\ pre' = genome
    /\ UNCHANGED caller

\* insert_te(pos, length) inside the documented domain: pos in
\* 0 .. len(genome) of every genome, length >= 0.
InsertTe ==
    \E pos \in 0..MinLength, length \in 0..MaxTELen :
        Call("insert_te", pos, length,
             [c \in Present |-> Genome_insert_te(c, genome[c], pos, length)])

\* insert_te(pos, length) with pos outside 0 .. len(genome) of some genome.
InsertTeOutOfRange ==
    \E pos \in (-2..(MaxLength + 1)) \ (0..MinLength), length \in 0..MaxTELen :
        Call("insert_te", pos, length,
             [c \in Present |-> Genome_insert_te(c, genome[c], pos, length)])

\* copy_te(te, offset): te is 0, a minted id or the next id to mint.
CopyTe ==
    \E te \in 0..MaxNextId, offset \in -MaxOff..MaxOff :
        Call("copy_te", te, offset,
             [c \in Present |-> Genome_copy_te(c, genome[c], te, offset)])

\* disable_te(te): te is 0, a minted id or the next id to mint.
DisableTe ==
    \E te \in 0..MaxNextId :
        Call("disable_te", te, 0,
             [c \in Present |-> Genome_disable_te(c, genome[c], te)])

\* The caller is done with the result of the call and goes on; a call
\* that never ends has no result to go on with.
Return ==
    /\ call # Idle
    /\ \A c \in Present : res[c].exc # "diverges"
    /\ call' = Idle
    /\ res' = [c \in Present |-> NoResult]
    /\ pre' = genome
    /\ UNCHANGED <<genome, caller>>

\* active_tes()
ActiveTes ==
    Call("active_tes", 0, 0,
         [c \in Present |-> [g |-> genome[c],
                             ret |-> Genome_active_tes(c, genome[c]),
                             exc |-> "none"]])

\* len(genome)
LenOf ==
    Call("len", 0, 0,
         [c \in Present |-> [g |-> genome[c],
                             ret |-> Genome_len(c, genome[c]),
                             exc |-> "none"]])

\* str(genome)
StrOf ==
    Call("str", 0, 0,
         [c \in Present |-> [g |-> genome[c],
                             ret |-> Genome_str(c, genome[c]).s,
                             exc |-> Genome_str(c, genome[c]).exc]])

\* The callers that keep to the documented domain.
Next == InsertTe \/ CopyTe \/ DisableTe \/ Return

\* The callers that also pass positions outside 0 .. len(genome).
NextAny == Next \/ InsertTeOutOfRange

\* The callers that keep to the documented domain and also query the genome.
NextObs == Next \/ ActiveTes \/ LenOf \/ StrOf

\* One genome of either class, called inside the documented domain.
Spec == Init /\ [][Next]_vars

\* One genome of either class, called with any position.
SpecAny == Init /\ [][NextAny]_vars

\* One genome of each class under the same calls, inside the domain.
SpecBoth == InitBoth /\ [][Next]_vars

\* One genome of either class, called inside the domain and queried.
SpecObs == Init /\ [][NextObs]_vars

\* ------------------------------------------------------------------------
\* Notions the properties are stated in
\* ------------------------------------------------------------------------
\* The tags of the genome g of class c in render order, from slot 0 on:
\* the list itself for ListGenome, the traversal from the origin node for
\* LinkedListGenome.
Tags(c, g) ==
    IF c = "ListGenome" THEN [s |-> g.nuc, exc |-> "none"]
    ELSE Linked_nucleotides(g)

\* The last call was insert_te(pos, length) with pos in 0 .. len(genome)
\* of the genome of class c.
InsertInDomain(c) ==
    /\ call.op = "insert_te"
    /\ 0 <= call.a
    /\ call.a <= Genome_len(c, pre[c])

\* What a caller can observe of a genome g of class c.
Observed(c, g) ==
    [str |-> Genome_str(c, g), active_tes |-> Genome_active_tes(c, g)]

\* ------------------------------------------------------------------------
\* C1: cross-implementation equivalence
\* ------------------------------------------------------------------------
\* C1 (as claimed): a ListGenome and a LinkedListGenome built with the same
\* n that have seen the same calls, all inside the documented domain (pos
\* in 0 .. len(genome), pos = 0 included), returned the same from the last
\* call and have the same str() and the same active_tes().
C1_CrossImplementationEquivalence ==
    Present = Classes
    => /\ res["ListGenome"] = res["LinkedListGenome"]
       /\ Observed("ListGenome", genome["ListGenome"])
            = Observed("LinkedListGenome", genome["LinkedListGenome"])

\* ------------------------------------------------------------------------
\* C2: placement of insert_te
\* ------------------------------------------------------------------------
\* C2 (as claimed): insert_te(pos, length) with 0 <= pos <= len(genome), on
\* a genome whose slots can be listed, returns an id and the slots in render
\* order are afterwards: the slots that were before pos, then length slots
\* of the new id, then the slots that were at pos and after it.
C2_InsertPlacement ==
    \A c \in Present :
        (InsertInDomain(c) /\ Tags(c, pre[c]).exc = "none")
        => /\ res[c].exc = "none"
           /\ Tags(c, genome[c])
                = [s |-> SpliceAt(Tags(c, pre[c]).s, call.a,
                                  Repeat(res[c].ret, call.b)),
                   exc |-> "none"]

\* ------------------------------------------------------------------------
\* C3: collision rule of insert_te
\* ------------------------------------------------------------------------
\* s without the occurrences of v.
Without(s, v) == SelectSeq(s, LAMBDA x : x # v)

\* v occurs in s.
Occurs(s, v) == \E k \in 1..Len(s) : s[k] = v

\* C3 (as claimed): after insert_te(pos, length) with 0 <= pos <= len(genome)
\* on a genome whose slots can be listed, the active ids are those of before
\* the call, in the same order, without the tag of the slot that was at pos
\* (nothing is taken away when that tag is 0 or not active, or when pos is
\* len(genome)), followed by the new id when the call returned one.  When an
\* active TE was hit, the call returns an id, every slot of the hit TE maps
\* to 'x' and every slot of the new id to 'A'.
C3_CollisionRule ==
    \A c \in Present :
        (InsertInDomain(c) /\ Tags(c, pre[c]).exc = "none")
        =>
        LET t == Tags(c, pre[c]).s
            before == Genome_active_tes(c, pre[c])
            after == Genome_active_tes(c, genome[c])
            hit == IF call.a < Len(t) THEN t[call.a + 1] ELSE 0
            minted == IF res[c].exc = "none" THEN <<res[c].ret>> ELSE <<>>
        IN /\ after = Without(before, hit) \o minted
           /\ Occurs(before, hit)
                => /\ res[c].exc = "none"
                   /\ res[c].ret = pre[c].next_te_id
                   /\ \A k \in 1..Len(genome[c].nuc) :
                        /\ genome[c].nuc[k] = hit
                             => SlotChar(hit, genome[c].active) = "x"
                        /\ genome[c].nuc[k] = res[c].ret
                             => SlotChar(res[c].ret, genome[c].active) = "A"

\* ------------------------------------------------------------------------
\* C4: copy_te of an active TE
\* ------------------------------------------------------------------------
\* C4 (as claimed): copy_te(te, offset) of an active te whose first slot is
\* at render position p and whose registered length is k returns the next
\* id and leaves the genome as insert_te((p + offset) mod L, k) does, L
\* being the length before the call.
C4_CopyIsInsertAtOffset ==
    \A c \in Present :
        (/\ call.op = "copy_te"
         /\ InDict(pre[c].active, call.a)
         /\ Tags(c, pre[c]).exc = "none"
         /\ Occurs(Tags(c, pre[c]).s, call.a))
        =>
        LET p == ListIndex(Tags(c, pre[c]).s, call.a)
            k == DictGet(pre[c].active, call.a).length
            r == Genome_insert_te(c, pre[c],
                                  (p + call.b) % Genome_len(c, pre[c]), k)
        IN /\ res[c] = [ret |-> pre[c].next_te_id, exc |-> "none"]
           /\ r.exc = "none"
           /\ r.ret = res[c].ret
           /\ genome[c] = r.g

\* ------------------------------------------------------------------------
\* C5: copy_te of an id that is not active
\* ------------------------------------------------------------------------
\* C5: copy_te(te, offset) of an id that is not in the active registry
\* returns None, raises nothing and leaves the genome as it was: the same
\* next id, the same slots and links, and the same len(), str() and
\* active_tes().
C5_CopyOfInactiveIsNoOp ==
    \A c \in Present :
        (call.op = "copy_te" /\ ~InDict(pre[c].active, call.a))
        => /\ res[c] = [ret |-> None, exc |-> "none"]
           /\ genome[c] = pre[c]
           /\ genome[c].next_te_id = pre[c].next_te_id
           /\ Genome_len(c, genome[c]) = Genome_len(c, pre[c])
           /\ Observed(c, genome[c]) = Observed(c, pre[c])

\* A copy_te, with an offset other than 0, of an id that was minted, still
\* tags slots and is no longer active, on a genome that has an active TE.
C5_Witness ==
    \E c \in Present :
        /\ call.op = "copy_te"
        /\ call.b # 0
        /\ Occurs(pre[c].nuc, call.a)
        /\ call.a >= 1
        /\ ~InDict(pre[c].active, call.a)
        /\ Len(pre[c].active) >= 1
        /\ res[c].ret = None

\* ------------------------------------------------------------------------
\* C6: TE ids
\* ------------------------------------------------------------------------
\* The ids a genome has handed out so far: its tags and its active ids.
IdsInUse(g) ==
    {g.nuc[k] : k \in 1..Len(g.nuc)} \cup {g.active[k].key : k \in 1..Len(g.active)}

\* The call returned a new id.
Minted(c) ==
    call.op \in {"insert_te", "copy_te"} /\ res[c].exc = "none" /\ res[c].ret # None

\* What C6 says of one call and of the state it leaves.
C6_Step ==
    \A c \in Present :
        /\ \A t \in IdsInUse(pre[c]) : t < pre[c].next_te_id
        /\ Minted(c)
             => /\ res[c].ret = pre[c].next_te_id
                /\ genome[c].next_te_id = res[c].ret + 1
                /\ \A t \in IdsInUse(pre[c]) : t < res[c].ret
                /\ call.op = "copy_te" => res[c].ret # call.a
        /\ ~Minted(c) => genome[c].next_te_id = pre[c].next_te_id

\* C6: a new genome has next id 1; an insert_te or copy_te that returns an
\* id returns the next id and advances it by one, so the ids returned are
\* 1, 2, 3, ...; the returned id is larger than every id handed out before
\* (the source of a copy included); and disable_te, a copy_te that returns
\* None and a call that raises leave the next id as it is.
C6_IdsIncreaseFromOne ==
    /\ \A c \in Present : genome[c].next_te_id = 1
    /\ [][C6_Step']_vars

\* A copy_te that returned the id 3 after the ids 1 and 2 had been returned.
C6_Witness ==
    \E c \in Present :
        /\ call.op = "copy_te"
        /\ res[c].ret = 3
        /\ pre[c].next_te_id = 3
        /\ call.a \in {1, 2}

\* ------------------------------------------------------------------------
\* C7: length of the render string
\* ------------------------------------------------------------------------
\* The number of occurrences of v in s.
Count(s, v) == Cardinality({k \in 1..Len(s) : s[k] = v})

\* C7 (as claimed): in every state reached by calls inside the documented
\* domain (length 0 included), str(genome) ends without raising, has
\* len(genome) characters, and lists every slot once: each tag is yielded
\* as often as it occurs in the storage.
C7_RenderLength ==
    \A c \in Present :
        LET r == Genome_str(c, genome[c])
            t == Tags(c, genome[c])
        IN /\ r.exc = "none"
           /\ Len(r.s) = Genome_len(c, genome[c])
           /\ \A v \in 0..MaxId : Count(t.s, v) = Count(genome[c].nuc, v)

\* ------------------------------------------------------------------------
\* C8: totality over the documented domain
\* ------------------------------------------------------------------------
\* C8 (as claimed): a call inside the documented domain (insert_te with
\* 0 <= pos <= len(genome) and length >= 0, copy_te and disable_te with any
\* id and offset) raises nothing, and str() raises nothing afterwards.
C8_Totality ==
    \A c \in Present :
        /\ res[c].exc = "none"
        /\ Genome_str(c, genome[c]).exc = "none"

\* ------------------------------------------------------------------------
\* C9: out-of-range error
\* ------------------------------------------------------------------------
\* C9 (as claimed): insert_te(pos, length) with pos < 0 or pos > len(genome)
\* raises, and leaves the genome as it was.
C9_OutOfRangeRaises ==
    \A c \in Present :
        (call.op = "insert_te"
         /\ (call.a < 0 \/ call.a > Genome_len(c, pre[c])))
        => /\ res[c].exc # "none"
           /\ genome[c] = pre[c]

\* ------------------------------------------------------------------------
\* C10: disable_te
\* ------------------------------------------------------------------------
\* C10: disable_te(te) returns None and raises nothing; when te is active it
\* takes te out of the active registry and leaves the other active ids in
\* their order, and it changes nothing else (slots, links, next id); when te
\* is not active it changes nothing; and a second disable_te(te) leaves the
\* genome as the first one left it.
C10_DisableTe ==
    \A c \in Present :
        call.op = "disable_te"
        => /\ res[c] = [ret |-> None, exc |-> "none"]
           /\ genome[c] = [pre[c] EXCEPT !.active =
                  SelectSeq(pre[c].active, LAMBDA e : e.key # call.a)]
           /\ Genome_active_tes(c, genome[c])
                = Without(Genome_active_tes(c, pre[c]), call.a)
           /\ ~InDict(pre[c].active, call.a) => genome[c] = pre[c]
           /\ Genome_len(c, genome[c]) = Genome_len(c, pre[c])
           /\ Genome_disable_te(c, genome[c], call.a).g = genome[c]

\* A disable_te of an active TE of a genome that has another active TE.
C10_Witness ==
    \E c \in Present :
        /\ call.op = "disable_te"
        /\ InDict(pre[c].active, call.a)
        /\ Len(pre[c].active) >= 2
        /\ Len(genome[c].active) = Len(pre[c].active) - 1

\* ------------------------------------------------------------------------
\* C11: active_tes()
\* ------------------------------------------------------------------------
\* s is strictly ascending.
Ascending(s) == \A i, j \in 1..Len(s) : i < j => s[i] < s[j]

\* The ids of s that also occur in t, in the order of s.
Kept(s, t) == SelectSeq(s, LAMBDA x : Occurs(t, x))

\* C11: active_tes() returns the keys of the active registry and leaves the
\* genome as it was; in every state the list has no duplicates and is in
\* creation order, which is ascending id order; and after any call the ids
\* that stayed active are in the order they had before, followed by the id
\* the call created, if any: a disable_te or a collision takes ids out
\* without reordering the others.
C11_ActiveTesOrder ==
    \A c \in Present :
        LET before == Genome_active_tes(c, pre[c])
            after == Genome_active_tes(c, genome[c])
            created == IF Minted(c) THEN <<res[c].ret>> ELSE <<>>
        IN /\ call.op = "active_tes"
                => /\ res[c] = [ret |-> after, exc |-> "none"]
                   /\ genome[c] = pre[c]
           /\ Ascending(after)
           /\ \A k \in 1..Len(after) :
                /\ InDict(genome[c].active, after[k])
                /\ after[k] >= 1 /\ after[k] < genome[c].next_te_id
           /\ \A t \in 1..MaxId + 1 :
                InDict(genome[c].active, t) => Occurs(after, t)
           /\ after = Kept(before, after) \o created

\* active_tes() returns two ids or more, the first of which is not 1: a TE
\* created before them is no longer active.
C11_Witness ==
    \E c \in Present :
        /\ call.op = "active_tes"
        /\ Len(res[c].ret) >= 2
        /\ res[c].ret[1] > 1

\* ------------------------------------------------------------------------
\* C13: evolution of len(genome)
\* ------------------------------------------------------------------------
\* The length the last call inserted, when it created a TE.
InsertedLength(c) ==
    IF call.op = "insert_te" THEN call.b
    ELSE DictGet(pre[c].active, call.a).length

\* C13: a genome on which no id was minted is as genome_class(n) left it
\* and has len(genome) = n; len(genome) never decreases; an insert_te(pos,
\* length) that returns an id adds exactly length to it and a copy_te that
\* returns an id adds exactly the registered length of its source; every
\* other call (disable_te, a copy_te that returns None, active_tes, len,
\* str, a call that raises) leaves it as it was; and no slot is removed:
\* every tag is stored at least as often as before.
C13_LengthEvolution ==
    \A c \in Present :
        LET before == Genome_len(c, pre[c])
            after == Genome_len(c, genome[c])
        IN /\ genome[c].next_te_id = 1
                => \E n \in 1..MaxN :
                       /\ genome[c] = Genome_init(c, n)
                       /\ after = n
           /\ after >= before
           /\ Minted(c) => after = before + InsertedLength(c)
           /\ ~Minted(c) => after = before
           /\ call.op = "len" => res[c] = [ret |-> after, exc |-> "none"]
           /\ \A v \in 0..MaxId :
                Count(genome[c].nuc, v) >= Count(pre[c].nuc, v)

\* A copy_te of a TE that has slots, on a genome that has grown since its
\* construction: the call returned an id and len(genome) grew by the length
\* of the source.
C13_Witness ==
    \E c \in Present :
        /\ call.op = "copy_te"
        /\ Minted(c)
        /\ InsertedLength(c) >= 1
        /\ Genome_len(c, genome[c]) = Genome_len(c, pre[c]) + InsertedLength(c)
        /\ Genome_len(c, pre[c]) > MaxN

\* ------------------------------------------------------------------------
\* run_genome_test
\* ------------------------------------------------------------------------
\* The size of the genome the test constructs.
TestSize == 20

\* A string given by its runs: <<<<"-", 5>>, <<"A", 2>>>> is "-----AA".
RECURSIVE Expand(_)
Expand(runs) ==
    IF runs = <<>> THEN <<>>
    ELSE Repeat(runs[1][1], runs[1][2]) \o Expand(Tail(runs))

\* What the test asserts of the genome as constructed.
TestStart ==
    [str |-> Expand(<<<<"-", 20>>>>), active |-> <<>>]

\* The calls of the test in order, each with the value, the str() and the
\* active_tes() the test asserts after it (disable_te: no value asserted).
TestScript == <<
    [op |-> "insert_te", a |-> 5, b |-> 10, ret |-> 1,
     str |-> Expand(<<<<"-", 5>>, <<"A", 10>>, <<"-", 15>>>>),
     active |-> <<1>>],
    [op |-> "insert_te", a |-> 10, b |-> 10, ret |-> 2,
     str |-> Expand(<<<<"-", 5>>, <<"x", 5>>, <<"A", 10>>, <<"x", 5>>,
                      <<"-", 15>>>>),
     active |-> <<2>>],
    [op |-> "copy_te", a |-> 2, b |-> 20, ret |-> 3,
     str |-> Expand(<<<<"-", 5>>, <<"x", 5>>, <<"A", 10>>, <<"x", 5>>,
                      <<"-", 5>>, <<"A", 10>>, <<"-", 10>>>>),
     active |-> <<2, 3>>],
    [op |-> "copy_te", a |-> 2, b |-> -15, ret |-> 4,
     str |-> Expand(<<<<"-", 5>>, <<"x", 5>>, <<"A", 10>>, <<"x", 5>>,
                      <<"-", 5>>, <<"A", 10>>, <<"-", 5>>, <<"A", 10>>,
                      <<"-", 5>>>>),
     active |-> <<2, 3, 4>>],
    [op |-> "insert_te", a |-> 50, b |-> 10, ret |-> 5,
     str |-> Expand(<<<<"-", 5>>, <<"x", 5>>, <<"A", 10>>, <<"x", 5>>,
                      <<"-", 5>>, <<"A", 10>>, <<"-", 5>>, <<"x", 5>>,
                      <<"A", 10>>, <<"x", 5>>, <<"-", 5>>>>),
     active |-> <<2, 3, 5>>],
    [op |-> "disable_te", a |-> 3, b |-> 0, ret |-> None,
     str |-> Expand(<<<<"-", 5>>, <<"x", 5>>, <<"A", 10>>, <<"x", 5>>,
                      <<"-", 5>>, <<"x", 10>>, <<"-", 5>>, <<"x", 5>>,
                      <<"A", 10>>, <<"x", 5>>, <<"-", 5>>>>),
     active |-> <<2, 5>>] >>

\* What the test asserts at the stage k: TestStart, or after the k-th call.
TestExpects(k) ==
    IF k = 0 THEN TestStart
    ELSE [str |-> TestScript[k].str, active |-> TestScript[k].active]

\* run_genome_test(genome_class) has constructed the genome and stands at
\* its first assertions.  caller.stage counts the calls made; caller.cursor
\* and caller.left are the node and the iterations left of the walk of
\* _get_index or _move_offset in progress, caller.back says it follows prev.
TestInit ==
    \E c \in Classes :
        /\ genome = [x \in {c} |-> Genome_init(x, TestSize)]
        /\ call = Idle
        /\ res = [x \in {c} |-> NoResult]
        /\ pre = [x \in {c} |-> Genome_init(x, TestSize)]
        /\ caller = [pc |-> "assert", stage |-> 0, cursor |-> 0, left |-> 0,
                     back |-> FALSE]

\* The call e walks the links of the genome of class c before it inserts.
Walks(c, e) ==
    /\ c = "LinkedListGenome"
    /\ \/ e.op = "insert_te"
       \/ e.op = "copy_te" /\ InDict(genome[c].active, e.a)

\* The call e on the genome g of class c.
TestApply(c, g, e) ==
    IF e.op = "insert_te" THEN Genome_insert_te(c, g, e.a, e.b)
    ELSE IF e.op = "copy_te" THEN Genome_copy_te(c, g, e.a, e.b)
    ELSE Genome_disable_te(c, g, e.a)

\* The next call of the script, when it runs without a walk.
TestCallAtomic ==
    /\ caller.pc = "call"
    /\ LET e == TestScript[caller.stage + 1]
           r == [c \in Present |-> TestApply(c, genome[c], e)]
       IN /\ \A c \in Present : ~Walks(c, e)
          /\ genome' = [c \in Present |-> r[c].g]
          /\ call' = [op |-> e.op, a |-> e.a, b |-> e.b]
          /\ res' = [c \in Present |-> [ret |-> r[c].ret, exc |-> r[c].exc]]
          /\ pre' = genome
          /\ caller' = [caller EXCEPT !.pc = "assert", !.stage = @ + 1]

\* The next call of the script enters _get_index (from node 0, pos
\* iterations) or _move_offset (from the anchor, |offset| iterations).
TestCallWalk ==
    /\ caller.pc = "call"
    /\ LET e == TestScript[caller.stage + 1] IN
       \E c \in Present :
          /\ Walks(c, e)
          /\ call' = [op |-> e.op, a |-> e.a, b |-> e.b]
          /\ pre' = genome
          /\ caller' =
               IF e.op = "insert_te"
               THEN [pc |-> "walk", stage |-> caller.stage + 1, cursor |-> 0,
                     left |-> IF e.a > 0 THEN e.a ELSE 0, back |-> FALSE]
               ELSE [pc |-> "walk", stage |-> caller.stage + 1,
                     cursor |-> DictGet(genome[c].active, e.a).pos,
                     left |-> IF e.b >= 0 THEN e.b ELSE -e.b,
                     back |-> e.b < 0]
          /\ UNCHANGED <<genome, res>>

\* One iteration of the walk: n = self.next[n], or i = self.prev[i].
WalkStep ==
    /\ caller.pc = "walk"
    /\ caller.left > 0
    /\ \E c \in Present :
         LET arr == IF caller.back THEN genome[c].prev ELSE genome[c].next
             w == Follow(arr, caller.cursor, 1)
         IN IF w.exc = "none"
            THEN /\ caller' = [caller EXCEPT !.cursor = w.i, !.left = @ - 1]
                 /\ UNCHANGED res
            ELSE /\ caller' = [caller EXCEPT !.pc = "assert"]
                 /\ res' = [x \in Present |-> [ret |-> None, exc |-> w.exc]]
    /\ UNCHANGED <<genome, call, pre>>

\* The walk is over: _insert_te_at_index at the node it ended on.
WalkEnd ==
    /\ caller.pc = "walk"
    /\ caller.left = 0
    /\ \E c \in Present :
         LET length == IF call.op = "insert_te" THEN call.b
                       ELSE DictGet(genome[c].active, call.a).length
             r == Linked_insert_te_at_index(genome[c], caller.cursor, length)
         IN /\ genome' = [x \in Present |-> r.g]
            /\ res' = [x \in Present |-> [ret |-> r.ret, exc |-> r.exc]]
    /\ caller' = [caller EXCEPT !.pc = "assert"]
    /\ UNCHANGED <<call, pre>>

\* The assertions of the stage hold on the genome of class c.
TestAsserts(c) ==
    LET e == TestExpects(caller.stage) IN
    /\ res[c].exc = "none"
    /\ call.op \in {"insert_te", "copy_te"}
         => res[c].ret = TestScript[caller.stage].ret
    /\ Genome_str(c, genome[c]) = [s |-> e.str, exc |-> "none"]
    /\ Genome_active_tes(c, genome[c]) = e.active

\* The assertions after a call: the test goes on to its next call, is over
\* after the last one, and is left at the first assertion that fails.
TestAssert ==
    /\ caller.pc = "assert"
    /\ caller' = [caller EXCEPT !.pc =
           IF \E c \in Present : ~TestAsserts(c) THEN "failed"
           ELSE IF caller.stage = Len(TestScript) THEN "passed"
           ELSE "call"]
    /\ call' = Idle
    /\ res' = [c \in Present |-> NoResult]
    /\ pre' = genome
    /\ UNCHANGED genome

NextTest ==
    TestCallAtomic \/ TestCallWalk \/ WalkStep \/ WalkEnd \/ TestAssert

\* test_list_genome or test_linked_list_genome.
SpecTest == TestInit /\ [][NextTest]_vars

\* ------------------------------------------------------------------------
\* C12: the golden trace
\* ------------------------------------------------------------------------
\* C12: run_genome_test, on ListGenome and on LinkedListGenome, never stops
\* at a failed assertion: on genome(20), insert_te(5, 10) returns 1,
\* insert_te(10, 10) returns 2 and leaves 1 inactive, copy_te(2, 20) returns
\* 3, copy_te(2, -15) returns 4, insert_te(50, 10) returns 5 and leaves 4
\* inactive, and after each call and after disable_te(3) str() and
\* active_tes() are the values the test asserts; at the end active_tes() is
\* [2, 5] and str() is the string the claim gives.
C12_GoldenTrace ==
    /\ caller.pc # "failed"
    /\ \A c \in Present :
         /\ caller.pc = "assert"
              => /\ res[c].exc = "none"
                 /\ Genome_str(c, genome[c]).s = TestExpects(caller.stage).str
                 /\ Genome_active_tes(c, genome[c])
                      = TestExpects(caller.stage).active
                 /\ caller.stage \in 1..5 => res[c].ret = caller.stage
                 /\ caller.stage >= 1
                      => genome[c] = TestApply(c, pre[c],
                                               TestScript[caller.stage]).g
                 /\ caller.stage = 2 => ~InDict(genome[c].active, 1)
                 /\ caller.stage = 5 => ~InDict(genome[c].active, 4)
         /\ caller.pc = "passed"
              => /\ Genome_active_tes(c, genome[c]) = <<2, 5>>
                 /\ Genome_str(c, genome[c])
                      = [s |-> Expand(<<<<"-", 5>>, <<"x", 5>>, <<"A", 10>>,
                                        <<"x", 5>>, <<"-", 5>>, <<"x", 10>>,
                                        <<"-", 5>>, <<"x", 5>>, <<"A", 10>>,
                                        <<"x", 5>>, <<"-", 5>>>>),
                          exc |-> "none"]

\* The test on LinkedListGenome has passed.
C12_Witness ==
    /\ caller.pc = "passed"
    /\ Present = {"LinkedListGenome"}
    /\ Len(genome["LinkedListGenome"].nuc) = 70

\* ------------------------------------------------------------------------
\* C14: contiguity of the active TEs
\* ------------------------------------------------------------------------
\* The slots of s tagged t follow each other in the circular order of s:
\* at most one of them is followed by a slot with another tag.
Contiguous(s, t) ==
    Cardinality({k \in 1..Len(s) : s[k] = t /\ s[(k % Len(s)) + 1] # t}) <= 1

\* C14 (as claimed): in every state reached by calls inside the documented
\* domain, every active id with registered length k tags exactly k slots of
\* the storage, the traversal in circular order from slot 0 meets exactly
\* those k slots, and it meets them one after the other.
C14_Contiguity ==
    \A c \in Present :
        LET t == Tags(c, genome[c]) IN
        \A x \in 1..Len(genome[c].active) :
            LET e == genome[c].active[x] IN
            /\ Count(genome[c].nuc, e.key) = e.length
            /\ Count(t.s, e.key) = e.length
            /\ Contiguous(t.s, e.key)

\* ------------------------------------------------------------------------
\* C15: anchor agreement
\* ------------------------------------------------------------------------
\* C15 (as claimed): when a ListGenome and a LinkedListGenome have seen the
\* same calls inside the documented domain, every active id te of the
\* LinkedListGenome that has a slot (registered length >= 1) tags a slot met
\* by the traversal from node 0, the first such slot is the node stored as
\* the anchor of te, and its position in the traversal is the position
\* nuc.index(te) of te in the ListGenome.
C15_AnchorAgreement ==
    Present = Classes
    => LET g == genome["LinkedListGenome"]
           order == Linked_nodes(g)
           tags == Linked_nucleotides(g)
       IN \A x \in 1..Len(g.active) :
            LET e == g.active[x]
                p == ListIndex(tags.s, e.key)
            IN e.length >= 1
               => /\ p # ValueError
                  /\ order.s[p + 1] = e.pos
                  /\ p = ListIndex(genome["ListGenome"].nuc, e.key)

\* ------------------------------------------------------------------------
\* C16: permanence of tags and of disabling
\* ------------------------------------------------------------------------
\* C16: no call changes the tag of a slot that exists: the storage after a
\* call is the storage before it, or, when the call created a TE, the
\* storage before it with slots of the new id, which tagged nothing before,
\* put in (a LinkedListGenome puts them behind the last node, so node
\* indices keep their tags); an id that was minted and is not active before
\* a call is not active after it; hence a slot that renders 'x' before a
\* call renders 'x' after it, and a slot that renders '-' renders '-' after
\* it.  Holding for every call, this holds from any state to every later
\* state.
C16_Permanence ==
    \A c \in Present :
        LET old == pre[c].nuc
            new == genome[c].nuc
        IN /\ IF Minted(c)
              THEN /\ Without(new, res[c].ret) = old
                   /\ ~Occurs(old, res[c].ret)
              ELSE new = old
           /\ c = "LinkedListGenome" => SubSeq(new, 1, Len(old)) = old
           /\ \A t \in 1..(pre[c].next_te_id - 1) :
                ~InDict(pre[c].active, t) => ~InDict(genome[c].active, t)
           /\ \A k \in 1..Len(old) :
                /\ SlotChar(old[k], pre[c].active) = "x"
                     => SlotChar(old[k], genome[c].active) = "x"
                /\ SlotChar(old[k], pre[c].active) = "-"
                     => SlotChar(old[k], genome[c].active) = "-"

\* An insert_te or copy_te that returned an id on a genome that has slots
\* of a TE that is no longer active and slots of a TE that is active.
C16_Witness ==
    \E c \in Present :
        /\ Minted(c)
        /\ \E k \in 1..Len(pre[c].nuc) :
             SlotChar(pre[c].nuc[k], pre[c].active) = "x"
        /\ \E k \in 1..Len(pre[c].nuc) :
             SlotChar(pre[c].nuc[k], pre[c].active) = "A"
        /\ Len(genome[c].nuc) > Len(pre[c].nuc)

\* ------------------------------------------------------------------------
\* C17: frame of a linked insertion
\* ------------------------------------------------------------------------
\* The node at which the last call of LinkedListGenome ran
\* _insert_te_at_index on the genome g.
InsertionNode(g) ==
    IF call.op = "insert_te" THEN Linked_get_index(g, call.a).i
    ELSE Linked_move_offset(g, DictGet(g.active, call.a).pos, call.b).i

\* C17 (as claimed): an insert_te or copy_te of LinkedListGenome that runs
\* _insert_te_at_index(i, length) on a genome of n nodes leaves n + length
\* nodes: nuc, next and prev all have n + length entries; the entries of
\* the n old nodes are as before but for next[prev[i]], which is n, and
\* prev[i], which is n + length - 1; and the registry entries of the other
\* active TEs (all but the TE at node i) are as before.
C17_LinkedInsertionFrame ==
    \A c \in Present :
        (c = "LinkedListGenome" /\ Minted(c))
        =>
        LET old == pre[c]
            new == genome[c]
            n == Len(old.nuc)
            length == InsertedLength(c)
            i == InsertionNode(old)
            j == old.prev[i + 1]
        IN /\ Len(new.nuc) = n + length
           /\ Len(new.next) = n + length
           /\ Len(new.prev) = n + length
           /\ \A x \in 0..(n - 1) :
                /\ new.nuc[x + 1] = old.nuc[x + 1]
                /\ new.next[x + 1] = IF x = j THEN n ELSE old.next[x + 1]
                /\ new.prev[x + 1] = IF x = i THEN n + length - 1
                                     ELSE old.prev[x + 1]
           /\ \A x \in 1..Len(old.active) :
                old.active[x].key # old.nuc[i + 1]
                => /\ InDict(new.active, old.active[x].key)
                   /\ DictGet(new.active, old.active[x].key) = old.active[x]

\* ------------------------------------------------------------------------
\* C18: the ring of LinkedListGenome
\* ------------------------------------------------------------------------
\* C18 (as claimed): in every state of a LinkedListGenome reached by calls
\* inside the documented domain, nuc, next and prev have the same length;
\* next and prev hold node indices and are inverse to each other; the
\* traversal of _nucleotides from node 0 ends, without raising, after it
\* has visited every node exactly once; and node 0 has tag 0 and is the
\* first node visited.
C18_RingWellFormed ==
    \A c \in Present :
        c = "LinkedListGenome"
        =>
        LET g == genome[c]
            n == Len(g.nuc)
            order == Linked_nodes(g)
        IN /\ Len(g.next) = n
           /\ Len(g.prev) = n
           /\ \A k \in 1..n : g.next[k] \in 0..(n - 1) /\ g.prev[k] \in 0..(n - 1)
           /\ \A k \in 1..n :
                /\ g.next[g.prev[k] + 1] = k - 1
                /\ g.prev[g.next[k] + 1] = k - 1
           /\ order.exc = "none"
           /\ Len(order.s) = n
           /\ {order.s[k] : k \in 1..Len(order.s)} = 0..(n - 1)
           /\ g.nuc[1] = 0
           /\ order.s[1] = 0

\* ------------------------------------------------------------------------
\* sim_te
\* ------------------------------------------------------------------------
\* list(Ops)
Ops == <<"INSERT", "COPY", "DISABLE">>

\* theta['weights'] of sim_params(), in tenths: (0.1, 2.0, 1.0).
Weights == <<1, 20, 10>>

\* op_weights: the weights of COPY and DISABLE that ignore the number of
\* active TEs.
OpWeights_Unscaled(active) == Weights

\* op_weights
OpWeights(active) ==
    <<Weights[1], Len(active) * Weights[2], Len(active) * Weights[3]>>

\* Ops.sample(weights): rand.choices returns an entry whose weight is
\* positive (the total is positive, since the weight of INSERT is).
Sample(weights) == {Ops[x] : x \in {y \in 1..3 : weights[y] > 0}}

\* The locals of sim_te at the head of its loop.
SimLocals(k, left) ==
    [pc |-> "loop", k |-> k, left |-> left, active |-> <<>>,
     weights |-> <<0, 0, 0>>, op |-> "none", out |-> <<>>]

\* sim_te(n, k, genome_class = c) has constructed its genome.
SimInit ==
    \E c \in Classes, n \in 1..MaxN, k \in 0..MaxK :
        /\ genome = [x \in {c} |-> Genome_init(x, n)]
        /\ call = Idle
        /\ res = [x \in {c} |-> NoResult]
        /\ pre = [x \in {c} |-> Genome_init(x, n)]
        /\ caller = SimLocals(k, k)

\* sim_te is at the head of its loop with an iteration to run.
SimAtLoop == caller.pc = "loop" /\ caller.left > 0 /\ call = Idle

\* One iteration up to the end of its call on the genome: active was read,
\* op was sampled, and name(a, b) had the outcome r.
SimIteration(active, op, name, a, b, r) ==
    /\ genome' = [x \in Present |-> r.g]
    /\ call' = [op |-> name, a |-> a, b |-> b]
    /\ res' = [x \in Present |-> [ret |-> r.ret, exc |-> r.exc]]
    /\ pre' = genome
    /\ caller' = [caller EXCEPT !.active = active,
                                !.weights = OpWeights(active),
                                !.op = op]

\* case Ops.INSERT: pos = rand.randint(0, len(genome)), both ends included;
\* length is geometric, so >= 1.
SimInsert ==
    /\ SimAtLoop
    /\ \E c \in Present :
         LET active == Genome_active_tes(c, genome[c]) IN
         /\ "INSERT" \in Sample(OpWeights(active))
         /\ \E pos \in 0..Genome_len(c, genome[c]), length \in 1..MaxTELen :
              SimIteration(active, "INSERT", "insert_te", pos, length,
                           Genome_insert_te(c, genome[c], pos, length))

\* case Ops.COPY: te = rand.choice(active), which raises IndexError on an
\* empty list; the offset is geometric, so >= 1, with either sign.
SimCopy ==
    /\ SimAtLoop
    /\ \E c \in Present :
         LET active == Genome_active_tes(c, genome[c]) IN
         /\ "COPY" \in Sample(OpWeights(active))
         /\ IF active = <<>>
            THEN SimIteration(active, "COPY", "choice", 0, 0,
                              [g |-> genome[c], ret |-> None,
                               exc |-> "IndexError"])
            ELSE \E x \in 1..Len(active), m \in 1..MaxOff, sign \in {1, -1} :
                   SimIteration(active, "COPY", "copy_te", active[x], sign * m,
                                Genome_copy_te(c, genome[c], active[x],
                                               sign * m))

\* case Ops.DISABLE: te = rand.choice(active).
SimDisable ==
    /\ SimAtLoop
    /\ \E c \in Present :
         LET active == Genome_active_tes(c, genome[c]) IN
         /\ "DISABLE" \in Sample(OpWeights(active))
         /\ IF active = <<>>
            THEN SimIteration(active, "DISABLE", "choice", 0, 0,
                              [g |-> genome[c], ret |-> None,
                               exc |-> "IndexError"])
            ELSE \E x \in 1..Len(active) :
                   SimIteration(active, "DISABLE", "disable_te", active[x], 0,
                                Genome_disable_te(c, genome[c], active[x]))

\* The call returned: back to the head of the loop.
SimLoop ==
    /\ caller.pc = "loop"
    /\ call # Idle
    /\ \A c \in Present : res[c].exc = "none"
    /\ call' = Idle
    /\ res' = [c \in Present |-> NoResult]
    /\ pre' = genome
    /\ caller' = SimLocals(caller.k, caller.left - 1)
    /\ UNCHANGED genome

\* The call raised: the exception leaves sim_te.
SimRaise ==
    /\ caller.pc = "loop"
    /\ call # Idle
    /\ \E c \in Present : res[c].exc # "none"
    /\ caller' = [caller EXCEPT !.pc = "raised"]
    /\ UNCHANGED <<genome, call, res, pre>>

\* The loop is over: return str(genome).
SimFinish ==
    /\ caller.pc = "loop"
    /\ caller.left = 0
    /\ call = Idle
    /\ \E c \in Present :
         LET s == Genome_str(c, genome[c]) IN
         /\ call' = [op |-> "str", a |-> 0, b |-> 0]
         /\ res' = [x \in Present |-> [ret |-> s.s, exc |-> s.exc]]
         /\ caller' = [caller EXCEPT
                          !.pc = IF s.exc = "none" THEN "done" ELSE "raised",
                          !.out = s.s]
    /\ pre' = genome
    /\ UNCHANGED genome

NextSim ==
    SimInsert \/ SimCopy \/ SimDisable \/ SimLoop \/ SimRaise \/ SimFinish

\* sim_te(n, k, genome_class = c) for n in 1 .. MaxN, k in 0 .. MaxK.
SpecSim == SimInit /\ [][NextSim]_vars

\* ------------------------------------------------------------------------
\* C19: operation selection of sim_te
\* ------------------------------------------------------------------------
\* C19: in every iteration of sim_te the weights of COPY and DISABLE are
\* their base weights times len(active_tes()), active_tes() being read at
\* the start of the iteration; COPY or DISABLE is selected only when a TE
\* is active, so that with no active TE the operation is INSERT; and the
\* te passed to copy_te or disable_te is a member of that list.
C19_OperationSelection ==
    \A c \in Present :
        (caller.pc = "loop" /\ call # Idle)
        =>
        LET active == Genome_active_tes(c, pre[c]) IN
        /\ caller.active = active
        /\ caller.weights[2] = Len(active) * Weights[2]
        /\ caller.weights[3] = Len(active) * Weights[3]
        /\ caller.op \in {"COPY", "DISABLE"} => Len(active) >= 1
        /\ Len(active) = 0
             => /\ caller.op = "INSERT"
                /\ call.op = "insert_te"
                /\ caller.weights[2] = 0
                /\ caller.weights[3] = 0
        /\ call.op \in {"copy_te", "disable_te"} => Occurs(active, call.a)
        /\ call.op # "choice"

\* sim_te has selected COPY with two TEs active and copies the second.
C19_Witness ==
    \E c \in Present :
        /\ caller.pc = "loop"
        /\ caller.op = "COPY"
        /\ call.op = "copy_te"
        /\ Len(caller.active) = 2
        /\ call.a = caller.active[2]

\* ------------------------------------------------------------------------
\* C20: a run of sim_te completes
\* ------------------------------------------------------------------------
\* C20 (as claimed): whatever is drawn (the operation, pos in 0 ..
\* len(genome) with both ends, length >= 1, a te of the active list, an
\* offset of magnitude >= 1 with either sign), no call of a run of
\* sim_te(n, k) raises, on either class; the run has made exactly as many
\* calls as iterations are done, k when it returns; and it returns
\* str(genome) of the final genome.
C20_RunCompletes ==
    /\ caller.pc # "raised"
    /\ \A c \in Present :
         /\ res[c].exc = "none"
         /\ caller.pc = "done"
              => /\ caller.left = 0
                 /\ genome[c].next_te_id - 1 <= caller.k
                 /\ Genome_str(c, genome[c]) = [s |-> caller.out, exc |-> "none"]
                 /\ Len(caller.out) = Genome_len(c, genome[c])

====
